---- MODULE Spec2Model ----
(***************************************************************************)
(* Model of the paired-FASTQ batch pipeline of src/src/main.rs:            *)
(* reader -> batch channel -> worker pool -> output channel -> distributor *)
(* -> three writer channels -> three writers, with the main thread joining *)
(* the threads in program order.                                           *)
(***************************************************************************)
EXTENDS Integers, Sequences, FiniteSets, Bags, TLC

(***************************************************************************)
(* Bounds of the model.                                                    *)
(***************************************************************************)
\* longest input stream, in records
MaxLen == 4
\* largest --batch-size explored
MaxBatch == 2
\* largest --threads explored
MaxWorkers == 2
\* capacity of every bounded channel (bounded(50) in the program, scaled down)
QueueCap == 1
\* length of the streams of a long run, in records
LongLen == 7
\* capacity of every bounded channel in a long run
LongCap == 2
\* longest text a function is called on, in characters
MaxText == 3
\* longest header a function is called on, in characters
MaxHeader == 5
\* longest file read_fastq_record is called on, in lines
MaxFileLines == 5

(***************************************************************************)
(* Program constants.                                                      *)
(***************************************************************************)
\* required length of an R2 sequence: `r2.sequence.len() != 166`
R2Len == 166
\* length of the insert part of R2: `&r2.sequence[0..150]`
InsertLen == 150
\* the three output files / writer threads
NumWriters == 3

Min(a, b) == IF a <= b THEN a ELSE b

(***************************************************************************)
(* Record model.  Text is a sequence of one-character strings.             *)
(***************************************************************************)
FastqRecord(header, sequence, plus, quality) ==
    [header |-> header, sequence |-> sequence, plus |-> plus, quality |-> quality]

\* FastqRecord::write_to_bytes: the four lines appended to the buffer
write_to_bytes(record) ==
    <<record.header, record.sequence, record.plus, record.quality>>

\* an upper-casing that leaves every character as it is
to_ascii_uppercase_identity(c) == c

to_ascii_uppercase(c) ==
    CASE c = "a" -> "A"
      [] c = "t" -> "T"
      [] c = "g" -> "G"
      [] c = "c" -> "C"
      [] c = "n" -> "N"
      [] c = "x" -> "X"
      [] OTHER -> c

complement_base(base) ==
    LET u == to_ascii_uppercase(base) IN
    CASE u = "A" -> "T"
      [] u = "T" -> "A"
      [] u = "G" -> "C"
      [] u = "C" -> "G"
      [] u = "N" -> "N"
      [] OTHER -> base

\* .chars().rev()
Rev(s) == [i \in 1..Len(s) |-> s[Len(s) + 1 - i]]

reverse_complement(sequence) ==
    LET r == Rev(sequence) IN [i \in 1..Len(r) |-> complement_base(r[i])]

ends_with(s, suffix) ==
    /\ Len(s) >= Len(suffix)
    /\ SubSeq(s, Len(s) - Len(suffix) + 1, Len(s)) = suffix

extract_base_header(header) ==
    IF ends_with(header, <<"/", "1">>) \/ ends_with(header, <<"/", "2">>)
    THEN SubSeq(header, 1, Len(header) - 2)
    ELSE header

(***************************************************************************)
(* The library functions of src/src/lib.rs, on bytes.                      *)
(***************************************************************************)
\* a closure that leaves a byte it does not know as it is
lib_complement_keep_unknown(b) ==
    LET u == to_ascii_uppercase(b) IN
    CASE u = "A" -> "T"
      [] u = "T" -> "A"
      [] u = "G" -> "C"
      [] u = "C" -> "G"
      [] OTHER -> b

\* the closure mapped over the bytes: match b.to_ascii_uppercase() { .. }
lib_complement(b) ==
    LET u == to_ascii_uppercase(b) IN
    CASE u = "A" -> "T"
      [] u = "T" -> "A"
      [] u = "G" -> "C"
      [] u = "C" -> "G"
      [] OTHER -> "N"

\* seq.iter().rev().map(..).collect()
lib_reverse_complement(seq) ==
    [i \in 1..Len(seq) |-> lib_complement(seq[Len(seq) + 1 - i])]

lib_extract_base_header(head) ==
    IF ends_with(head, <<"/", "1">>) \/ ends_with(head, <<"/", "2">>)
    THEN SubSeq(head, 1, Len(head) - 2)
    ELSE head

starts_with(line, c) == Len(line) >= 1 /\ line[1] = c

(***************************************************************************)
(* Reading.  A file is a sequence of lines; pos is the number of lines the *)
(* Lines iterator has consumed.                                            *)
(***************************************************************************)
\* header loop of read_fastq_record: index of the next line starting with
\* '@', or 0 at end of file
RECURSIVE SkipToHeader(_, _)
SkipToHeader(file, pos) ==
    IF pos >= Len(file) THEN 0
    ELSE IF starts_with(file[pos + 1], "@") THEN pos + 1
    ELSE SkipToHeader(file, pos + 1)

\* a sequence loop that takes the end of the file for the end of the sequence
RECURSIVE ReadSequence_stops_at_eof(_, _, _)
ReadSequence_stops_at_eof(file, pos, acc) ==
    IF pos >= Len(file) THEN [ok |-> TRUE, text |-> acc, pos |-> pos]
    ELSE IF starts_with(file[pos + 1], "+")
         THEN [ok |-> TRUE, text |-> acc, pos |-> pos + 1]
         ELSE ReadSequence_stops_at_eof(file, pos + 1, acc \o file[pos + 1])

\* sequence loop of read_fastq_record: concatenate lines up to the '+' line
RECURSIVE ReadSequence(_, _, _)
ReadSequence(file, pos, acc) ==
    IF pos >= Len(file) THEN [ok |-> FALSE, text |-> acc, pos |-> pos]
    ELSE IF starts_with(file[pos + 1], "+")
         THEN [ok |-> TRUE, text |-> acc, pos |-> pos + 1]
         ELSE ReadSequence(file, pos + 1, acc \o file[pos + 1])

\* quality loop of read_fastq_record: concatenate lines until n characters
RECURSIVE ReadQuality(_, _, _, _)
ReadQuality(file, pos, acc, n) ==
    IF Len(acc) >= n THEN [ok |-> TRUE, text |-> acc, pos |-> pos]
    ELSE IF pos >= Len(file) THEN [ok |-> FALSE, text |-> acc, pos |-> pos]
    ELSE ReadQuality(file, pos + 1, acc \o file[pos + 1], n)

\* a read_fastq_record that keeps all of the quality lines it has read
read_fastq_record_untruncated(file, pos) ==
    LET h == SkipToHeader(file, pos) IN
    IF h = 0 THEN [tag |-> "None", rec |-> <<>>, pos |-> Len(file)]
    ELSE LET s == ReadSequence(file, h, <<>>) IN
         IF ~s.ok THEN [tag |-> "Err", rec |-> <<>>, pos |-> s.pos]
         ELSE LET q == ReadQuality(file, s.pos, <<>>, Len(s.text)) IN
              IF ~q.ok THEN [tag |-> "Err", rec |-> <<>>, pos |-> q.pos]
              ELSE [tag |-> "Some",
                    rec |-> <<FastqRecord(file[h], s.text, <<"+">>, q.text)>>,
                    pos |-> q.pos]

\* Result<Option<FastqRecord>>: tag is "Some", "None" or "Err"; rec holds the
\* record of a "Some" as a one-element sequence
read_fastq_record(file, pos) ==
    LET h == SkipToHeader(file, pos) IN
    IF h = 0 THEN [tag |-> "None", rec |-> <<>>, pos |-> Len(file)]
    ELSE LET s == ReadSequence(file, h, <<>>) IN
         IF ~s.ok THEN [tag |-> "Err", rec |-> <<>>, pos |-> s.pos]
         ELSE LET q == ReadQuality(file, s.pos, <<>>, Len(s.text)) IN
              IF ~q.ok THEN [tag |-> "Err", rec |-> <<>>, pos |-> q.pos]
              ELSE [tag |-> "Some",
                    rec |-> <<FastqRecord(file[h], s.text, <<"+">>,
                                          SubSeq(q.text, 1, Len(s.text)))>>,
                    pos |-> q.pos]

\* the for loop of read_fastq_batch, n iterations left
RECURSIVE BatchLoop(_, _, _, _)
BatchLoop(file, pos, n, acc) ==
    IF n = 0 THEN [ok |-> TRUE, batch |-> acc, pos |-> pos]
    ELSE LET r == read_fastq_record(file, pos) IN
         IF r.tag = "Err" THEN [ok |-> FALSE, batch |-> <<>>, pos |-> r.pos]
         ELSE IF r.tag = "None" THEN [ok |-> TRUE, batch |-> acc, pos |-> r.pos]
         ELSE BatchLoop(file, r.pos, n - 1, acc \o r.rec)

read_fastq_batch(file, pos, size) == BatchLoop(file, pos, size, <<>>)

(***************************************************************************)
(* The per-pair transform.  An Option is a sequence of length 0 or 1.      *)
(***************************************************************************)
ProcessedRecord(r1_out, r2_out, r3_out) ==
    [r1_out |-> r1_out, r2_out |-> r2_out, r3_out |-> r3_out]

process_record_pair(r1, r2) ==
    IF Len(r2.sequence) # R2Len THEN <<>>
    ELSE LET r1_base == extract_base_header(r1.header)
             r2_base == extract_base_header(r2.header)
         IN IF r1_base # r2_base THEN <<>>
            ELSE LET r2_seq == SubSeq(r2.sequence, InsertLen + 1, R2Len)
                     r2_qual == SubSeq(r2.quality, InsertLen + 1, R2Len)
                     r3_seq == SubSeq(r2.sequence, 1, InsertLen)
                     r3_qual == SubSeq(r2.quality, 1, InsertLen)
                 IN << ProcessedRecord(
                         FastqRecord(r1_base, r1.sequence, r1.plus, r1.quality),
                         FastqRecord(r1_base, reverse_complement(r2_seq),
                                     r2.plus, Rev(r2_qual)),
                         FastqRecord(r1_base, r3_seq, r2.plus, r3_qual)) >>

\* a zip that aligns the two batches at their ends
Zip_end_aligned(r1_batch, r2_batch) ==
    LET n == Min(Len(r1_batch), Len(r2_batch)) IN
    [i \in 1..n |-> <<r1_batch[Len(r1_batch) - n + i], r2_batch[Len(r2_batch) - n + i]>>]

\* r1_batch.into_iter().zip(r2_batch.into_iter())
Zip(r1_batch, r2_batch) ==
    [i \in 1..Min(Len(r1_batch), Len(r2_batch)) |-> <<r1_batch[i], r2_batch[i]>>]

RECURSIVE ProcessPairs(_)
ProcessPairs(pairs) ==
    IF pairs = <<>> THEN <<>>
    ELSE process_record_pair(Head(pairs)[1], Head(pairs)[2]) \o ProcessPairs(Tail(pairs))

process_batch(r1_batch, r2_batch) == ProcessPairs(Zip(r1_batch, r2_batch))

(***************************************************************************)
(* Input files explored.  Record i of a stream carries i in its header, so *)
(* a record identifies its position.                                       *)
(***************************************************************************)
Digit(i) == <<"1", "2", "3", "4", "5", "6", "7", "8", "9">>[i]
Bases == <<"A", "C", "G", "T">>

\* a record of the R1 file
RecordA(i) ==
    FastqRecord(<<"@", "r", Digit(i), "/", "1">>, <<"A", "C", "G", "T">>,
                <<"+">>, <<"I", "I", "I", "I">>)

\* a record of the R2 file: "ok" passes the filter, "short" has a sequence
\* that is not 166 long, "mismatch" has another read name
RecordB(i, kind) ==
    LET n == IF kind = "short" THEN 4 ELSE R2Len IN
    FastqRecord(<<"@", IF kind = "mismatch" THEN "q" ELSE "r", Digit(i), "/", "2">>,
                [j \in 1..n |-> Bases[((i + j) % 4) + 1]],
                <<"+">>,
                [j \in 1..n |-> IF j <= InsertLen THEN "I" ELSE Digit((j % 9) + 1)])

Patterns == {"pass", "mixed", "none"}
KindAt(pattern, i) ==
    CASE pattern = "pass" -> "ok"
      [] pattern = "mixed" -> <<"ok", "short", "ok", "mismatch">>[((i - 1) % 4) + 1]
      [] OTHER -> "mismatch"

RECURSIVE FileLines(_)
FileLines(records) ==
    IF records = <<>> THEN <<>>
    ELSE write_to_bytes(Head(records)) \o FileLines(Tail(records))

\* where a file can end inside a record: after the header line, after the
\* sequence line (no separator), or in the quality line
Cuts == {"header", "sequence", "quality"}

\* the lines of a record that the file ends in
TruncatedTail(rec, cut) ==
    CASE cut = "header" -> <<rec.header>>
      [] cut = "sequence" -> <<rec.header, rec.sequence>>
      [] OTHER -> <<rec.header, rec.sequence, rec.plus,
                    SubSeq(rec.quality, 1, Len(rec.quality) - 1)>>

FileA(n, truncated, cut) ==
    FileLines([i \in 1..n |-> RecordA(i)])
      \o (IF truncated THEN TruncatedTail(RecordA(n + 1), cut) ELSE <<>>)

FileB(n, pattern, truncated, cut) ==
    FileLines([i \in 1..n |-> RecordB(i, KindAt(pattern, i))])
      \o (IF truncated THEN TruncatedTail(RecordB(n + 1, "ok"), cut) ELSE <<>>)

\* number of complete records of a file of single-line records
RecordCount(file) == Len(file) \div 4

(***************************************************************************)
(* State of a run.                                                         *)
(***************************************************************************)
VARIABLES
    input,                \* what the two input files hold (see r1_file, r2_file)
    batch_size, threads,  \* args.batch_size, args.threads
    capacity,             \* the capacity given to every bounded(..) channel
    fail_writer,          \* writer whose destination fails (0: none)
    r1_pos, r2_pos,       \* r1_lines, r2_lines: lines consumed so far
    reader,               \* reader thread: pc and the batches it holds
    batch_ch,             \* batch_tx/batch_rx
    output_ch,            \* output_tx/output_rx
    writer_ch,            \* r1_tx/r1_rx, r2_tx/r2_rx, r3_tx/r3_rx
    worker,               \* processing threads: pc and the results held
    dist,                 \* distribution thread: pc and its three batches
    writer,               \* writer threads: pc
    out,                  \* the three output files, as lines
    total_read, processed_count, filtered_count,
    main,                 \* main thread: pc, join index, result
    fail_order,           \* threads that ended with an error, in time order
    transformed,          \* bag of the pairs handed to process_record_pair,
                          \* each pair as its two headers
    produced,             \* bag of the triples the workers produced, each
                          \* triple as its header
    call                  \* a function called on its own: its argument, how
                          \* often it was applied and what it returned

vars == <<input, batch_size, threads, capacity, fail_writer, r1_pos, r2_pos,
          reader, batch_ch, output_ch, writer_ch, worker, dist, writer, out,
          total_read, processed_count, filtered_count, main, fail_order,
          transformed, produced, call>>

\* what no thread of a run changes
config == <<input, batch_size, threads, capacity, fail_writer, call>>

\* the state of a run
pipeline == <<input, batch_size, threads, capacity, fail_writer, r1_pos, r2_pos,
              reader, batch_ch, output_ch, writer_ch, worker, dist, writer, out,
              total_read, processed_count, filtered_count, main, fail_order,
              transformed, produced>>

\* the two input files, as lines
r1_file == FileA(input.na, input.truncA, input.cut)
r2_file == FileB(input.nb, input.pattern, input.truncB, input.cut)

Writers == 1..NumWriters
Workers == 1..threads
WriterName(k) == <<"writer1", "writer2", "writer3">>[k]

NoBatches == [k \in Writers |-> <<>>]

Run(na, nb, pattern, truncA, truncB, fw) ==
    [na |-> na, nb |-> nb, pattern |-> pattern, truncA |-> truncA,
     truncB |-> truncB, cut |-> "sequence", fail_writer |-> fw]

\* runs on well-formed files with working destinations
FaultFreeRuns ==
    {Run(na, nb, pattern, FALSE, FALSE, 0) :
        na \in 0..MaxLen, nb \in 0..MaxLen, pattern \in Patterns}

\* runs in which one of the files ends inside a record (the record begun
\* last counts in the length explored)
TruncatedRuns ==
    {[Run(na, nb, "pass", t, ~t, 0) EXCEPT !.cut = cut] :
        na \in 0..(MaxLen - 1), nb \in 0..(MaxLen - 1), t \in BOOLEAN,
        cut \in Cuts}

\* runs in which one destination cannot be created or written
WriterFaultRuns ==
    {Run(n, n, "pass", FALSE, FALSE, k) : n \in 0..MaxLen, k \in Writers}

Runs == FaultFreeRuns \cup TruncatedRuns \cup WriterFaultRuns

\* main has created the channels and spawned the threads; nothing has run
Spawned ==
    /\ r1_pos = 0
    /\ r2_pos = 0
    /\ reader = [pc |-> "read", r1_batch |-> <<>>, r2_batch |-> <<>>]
    /\ batch_ch = <<>>
    /\ output_ch = <<>>
    /\ writer_ch = NoBatches
    /\ worker = [w \in Workers |-> [pc |-> "recv", results |-> <<>>]]
    /\ dist = [pc |-> "recv", k |-> 1, batch |-> NoBatches]
    /\ writer = [k \in Writers |-> "create"]
    /\ out = [k \in Writers |-> <<>>]
    /\ total_read = 0
    /\ processed_count = 0
    /\ filtered_count = 0
    /\ main = [pc |-> "join_reader", idx |-> 1, result |-> "running", err |-> "none"]
    /\ fail_order = <<>>
    /\ transformed = EmptyBag
    /\ produced = EmptyBag

\* a run of the program on the files and destinations of `run`
Launch(run) ==
    /\ input = [na |-> run.na, nb |-> run.nb, pattern |-> run.pattern,
                 truncA |-> run.truncA, truncB |-> run.truncB, cut |-> run.cut]
    /\ fail_writer = run.fail_writer

\* no function is called on its own
NoCall == [kind |-> "none", arg |-> <<>>, fn |-> "none", n |-> 0, ret |-> <<>>]

Init ==
    /\ call = NoCall
    /\ \E run \in Runs : Launch(run)
    /\ batch_size \in 1..MaxBatch
    /\ threads \in 1..MaxWorkers
    /\ capacity = QueueCap
    /\ Spawned

(***************************************************************************)
(* Channel ends.  A thread's ends are dropped when the thread ends; main   *)
(* drops its own at the drop() lines.  When main returns the process       *)
(* exits and no thread runs any further.                                   *)
(***************************************************************************)
Running == main.pc # "returned"

ReaderEnded == reader.pc \in {"ok", "err"}
WorkerEnded(w) == worker[w].pc = "done"
DistEnded == dist.pc \in {"ok", "err"}
WriterEnded(k) == writer[k] \in {"ok", "err"}

\* main keeps batch_rx until it returns
BatchReceiversAlive == Running \/ \E w \in Workers : ~WorkerEnded(w)
\* batch_tx lives in the reader thread only
BatchSendersAlive == ~ReaderEnded
\* a main that never drops its output_tx
MainHoldsOutputTx_kept == Running
\* a distribution thread that takes an empty channel for a closed one
OutputSendersAlive_try_recv == FALSE

\* output_tx: main's original until drop(output_tx), one clone per worker
MainHoldsOutputTx == main.pc \in {"join_reader", "join_workers"}
OutputSendersAlive == MainHoldsOutputTx \/ \E w \in Workers : ~WorkerEnded(w)
\* output_rx lives in the distribution thread only
OutputReceiverAlive == ~DistEnded
\* r1_tx, r2_tx, r3_tx: main's originals until their drop(), one clone each
\* in the distribution thread
MainHoldsWriterTx == main.pc \in {"join_reader", "join_workers", "join_dist"}
WriterSendersAlive == MainHoldsWriterTx \/ ~DistEnded
WriterReceiverAlive(k) == ~WriterEnded(k)

\* a send that queues the message ahead of the waiting ones
send_front(ch, msg) == <<msg>> \o ch

\* a channel after a successful send: the message is queued behind the others
send(ch, msg) == Append(ch, msg)

\* a send that never waits for room
CanSend_unbounded(ch, receivers_alive) == TRUE

\* Sender::send returns: with Ok once the bounded channel has room, with Err
\* once no receiver is left; until then it blocks
CanSend(ch, receivers_alive) == ~receivers_alive \/ Len(ch) < capacity
\* Receiver::recv returns: with a message if one is queued, with Err once
\* the channel is empty and no sender is left; until then it blocks
CanRecv(ch, senders_alive) == ch # <<>> \/ ~senders_alive

(***************************************************************************)
(* Reader thread.                                                          *)
(***************************************************************************)
\* a reader that counts the R1 records of a batch
batch_count_r1(r1_batch, r2_batch) == Len(r1_batch)

\* let batch_count = r1_batch.len().min(r2_batch.len())
batch_count(r1_batch, r2_batch) == Min(Len(r1_batch), Len(r2_batch))

\* one iteration of the loop up to the send: both read_fastq_batch calls,
\* the match, the end-of-file test and the counter update
ReaderRead ==
    /\ Running
    /\ reader.pc = "read"
    /\ \E b1 \in {read_fastq_batch(r1_file, r1_pos, batch_size)},
          b2 \in {read_fastq_batch(r2_file, r2_pos, batch_size)} :
          /\ r1_pos' = b1.pos
          /\ r2_pos' = b2.pos
          /\ IF b1.ok /\ b2.ok
             THEN IF b1.batch = <<>> \/ b2.batch = <<>>
                  THEN /\ reader' = [pc |-> "ok", r1_batch |-> <<>>, r2_batch |-> <<>>]
                       /\ UNCHANGED <<total_read, fail_order>>
                  ELSE /\ total_read' = total_read + batch_count(b1.batch, b2.batch)
                       /\ reader' = [pc |-> "send", r1_batch |-> b1.batch,
                                     r2_batch |-> b2.batch]
                       /\ UNCHANGED fail_order
             ELSE /\ reader' = [pc |-> "err", r1_batch |-> <<>>, r2_batch |-> <<>>]
                  /\ fail_order' = Append(fail_order, "reader")
                  /\ UNCHANGED total_read
    /\ UNCHANGED <<config, batch_ch, output_ch, writer_ch, worker, dist, writer,
                   out, processed_count, filtered_count, main, transformed, produced>>

\* batch_tx.send((r1_batch, r2_batch)): blocks while the channel is full,
\* fails when no receiver is left (the reader then breaks and returns Ok)
ReaderSend ==
    /\ Running
    /\ reader.pc = "send"
    /\ CanSend(batch_ch, BatchReceiversAlive)
    /\ IF ~BatchReceiversAlive
       THEN /\ reader' = [pc |-> "ok", r1_batch |-> <<>>, r2_batch |-> <<>>]
            /\ UNCHANGED batch_ch
       ELSE /\ batch_ch' = send(batch_ch, <<reader.r1_batch, reader.r2_batch>>)
            /\ reader' = [pc |-> "read", r1_batch |-> <<>>, r2_batch |-> <<>>]
    /\ UNCHANGED <<config, r1_pos, r2_pos, output_ch, writer_ch, worker, dist,
                   writer, out, total_read, processed_count, filtered_count,
                   main, fail_order, transformed, produced>>

(***************************************************************************)
(* Processing threads.                                                     *)
(***************************************************************************)
\* let filtered_in_batch = total_in_batch - processed_in_batch, where
\* total_in_batch = r2_batch.len()
filtered_in_batch(r1_batch, r2_batch, results) == Len(r2_batch) - Len(results)

PairHeaders(pairs) == [i \in 1..Len(pairs) |-> <<pairs[i][1].header, pairs[i][2].header>>]

TripleHeaders(results) == [i \in 1..Len(results) |-> results[i].r1_out.header]

RECURSIVE SeqToBag(_)
SeqToBag(s) == IF s = <<>> THEN EmptyBag ELSE SetToBag({Head(s)}) (+) SeqToBag(Tail(s))

\* rx.recv() and the loop body up to the send
WorkerRecv(w) ==
    /\ Running
    /\ worker[w].pc = "recv"
    /\ CanRecv(batch_ch, BatchSendersAlive)
    /\ IF batch_ch # <<>>
       THEN \E r1_batch \in {Head(batch_ch)[1]}, r2_batch \in {Head(batch_ch)[2]} :
            \E results \in {process_batch(r1_batch, r2_batch)} :
               /\ batch_ch' = Tail(batch_ch)
               /\ processed_count' = processed_count + Len(results)
               /\ filtered_count' = filtered_count
                                      + filtered_in_batch(r1_batch, r2_batch, results)
               /\ transformed' = transformed (+) SeqToBag(PairHeaders(Zip(r1_batch, r2_batch)))
               /\ produced' = produced (+) SeqToBag(TripleHeaders(results))
               /\ worker' = [worker EXCEPT ![w] =
                               IF results # <<>>
                               THEN [pc |-> "send", results |-> results]
                               ELSE [pc |-> "recv", results |-> <<>>]]
       ELSE /\ worker' = [worker EXCEPT ![w] = [pc |-> "done", results |-> <<>>]]
            /\ UNCHANGED <<batch_ch, processed_count, filtered_count, transformed, produced>>
    /\ UNCHANGED <<config, r1_pos, r2_pos, reader, output_ch, writer_ch, dist,
                   writer, out, total_read, main, fail_order>>

\* tx.send(results): break when the distribution thread is gone
WorkerSend(w) ==
    /\ Running
    /\ worker[w].pc = "send"
    /\ CanSend(output_ch, OutputReceiverAlive)
    /\ IF ~OutputReceiverAlive
       THEN /\ worker' = [worker EXCEPT ![w] = [pc |-> "done", results |-> <<>>]]
            /\ UNCHANGED output_ch
       ELSE /\ output_ch' = send(output_ch, worker[w].results)
            /\ worker' = [worker EXCEPT ![w] = [pc |-> "recv", results |-> <<>>]]
    /\ UNCHANGED <<config, r1_pos, r2_pos, reader, batch_ch, writer_ch, dist,
                   writer, out, total_read, processed_count, filtered_count,
                   main, fail_order, transformed, produced>>

(***************************************************************************)
(* Distribution thread.                                                    *)
(***************************************************************************)
\* a split that loses the last record of r3_batch
SplitBatch_drop_last(batch_results, k) ==
    [i \in 1..(IF k = 3 THEN Len(batch_results) - 1 ELSE Len(batch_results)) |->
        CASE k = 1 -> batch_results[i].r1_out
          [] k = 2 -> batch_results[i].r2_out
          [] OTHER -> batch_results[i].r3_out]

\* a split that fills r2_batch back to front
SplitBatch_reversed(batch_results, k) ==
    [i \in 1..Len(batch_results) |->
        CASE k = 1 -> batch_results[i].r1_out
          [] k = 2 -> batch_results[Len(batch_results) + 1 - i].r2_out
          [] OTHER -> batch_results[i].r3_out]

\* the for loop over batch_results: the k-th of r1_batch, r2_batch, r3_batch
SplitBatch(batch_results, k) ==
    [i \in 1..Len(batch_results) |->
        CASE k = 1 -> batch_results[i].r1_out
          [] k = 2 -> batch_results[i].r2_out
          [] OTHER -> batch_results[i].r3_out]

\* output_rx.recv() and the split of the batch; recv fails once the channel
\* is empty and every output_tx has been dropped
DistRecv ==
    /\ Running
    /\ dist.pc = "recv"
    /\ CanRecv(output_ch, OutputSendersAlive)
    /\ IF output_ch # <<>>
       THEN \E batches \in {[k \in Writers |-> SplitBatch(Head(output_ch), k)]} :
               /\ output_ch' = Tail(output_ch)
               /\ dist' = IF batches[1] # <<>>
                          THEN [pc |-> "send", k |-> 1, batch |-> batches]
                          ELSE [pc |-> "recv", k |-> 1, batch |-> NoBatches]
       ELSE /\ dist' = [pc |-> "ok", k |-> 1, batch |-> NoBatches]
            /\ UNCHANGED output_ch
    /\ UNCHANGED <<config, r1_pos, r2_pos, reader, batch_ch, writer_ch, worker,
                   writer, out, total_read, processed_count, filtered_count,
                   main, fail_order, transformed, produced>>

\* rK_tx_clone.send(rK_batch).map_err(..)?  for K = dist.k
DistSend ==
    /\ Running
    /\ dist.pc = "send"
    /\ CanSend(writer_ch[dist.k], WriterReceiverAlive(dist.k))
    /\ LET k == dist.k IN
       IF ~WriterReceiverAlive(k)
       THEN /\ dist' = [pc |-> "err", k |-> k, batch |-> NoBatches]
            /\ fail_order' = Append(fail_order, "dist")
            /\ UNCHANGED writer_ch
       ELSE /\ writer_ch' = [writer_ch EXCEPT ![k] = send(@, dist.batch[k])]
            /\ dist' = IF k < NumWriters
                       THEN [dist EXCEPT !.k = k + 1]
                       ELSE [pc |-> "recv", k |-> 1, batch |-> NoBatches]
            /\ UNCHANGED fail_order
    /\ UNCHANGED <<config, r1_pos, r2_pos, reader, batch_ch, output_ch, worker,
                   writer, out, total_read, processed_count, filtered_count,
                   main, transformed, produced>>

(***************************************************************************)
(* Writer threads.                                                         *)
(***************************************************************************)
\* let mut writer = create_writer(&rK_output)? when File::create fails
WriterCreateFail(k) ==
    /\ Running
    /\ writer[k] = "create"
    /\ fail_writer = k
    /\ writer' = [writer EXCEPT ![k] = "err"]
    /\ fail_order' = Append(fail_order, WriterName(k))
    /\ UNCHANGED <<config, r1_pos, r2_pos, reader, batch_ch, output_ch, writer_ch,
                   worker, dist, out, total_read, processed_count,
                   filtered_count, main, transformed, produced>>

\* a buffer filled from the last record of the batch to the first
RECURSIVE BatchBytes_reversed(_)
BatchBytes_reversed(batch) ==
    IF batch = <<>> THEN <<>>
    ELSE BatchBytes_reversed(Tail(batch)) \o write_to_bytes(Head(batch))

\* the buffer filled from one batch
RECURSIVE BatchBytes(_)
BatchBytes(batch) ==
    IF batch = <<>> THEN <<>>
    ELSE write_to_bytes(Head(batch)) \o BatchBytes(Tail(batch))

\* rK_rx.recv() and writer.write_all(&buffer)?; the first one follows a
\* successful create_writer, which no other thread can observe
WriterRecv(k) ==
    /\ Running
    /\ writer[k] \in {"create", "recv"}
    /\ CanRecv(writer_ch[k], WriterSendersAlive)
    /\ IF writer_ch[k] # <<>>
       THEN /\ writer_ch' = [writer_ch EXCEPT ![k] = Tail(@)]
            /\ \/ /\ out' = [out EXCEPT ![k] = @ \o BatchBytes(Head(writer_ch[k]))]
                  /\ writer' = [writer EXCEPT ![k] = "recv"]
                  /\ UNCHANGED fail_order
               \/ /\ fail_writer = k
                  /\ writer' = [writer EXCEPT ![k] = "err"]
                  /\ fail_order' = Append(fail_order, WriterName(k))
                  /\ UNCHANGED out
       ELSE /\ writer' = [writer EXCEPT ![k] = "ok"]
            /\ UNCHANGED <<writer_ch, out, fail_order>>
    /\ UNCHANGED <<config, r1_pos, r2_pos, reader, batch_ch, output_ch, worker,
                   dist, total_read, processed_count, filtered_count, main,
                   transformed, produced>>

(***************************************************************************)
(* Main thread: the joins and drops in program order.  A `?` on a failed   *)
(* thread returns at once.                                                 *)
(***************************************************************************)
Return(result, from) == [pc |-> "returned", idx |-> 1, result |-> result, err |-> from]

\* reader_handle.join().unwrap()?
MainJoinReader ==
    /\ main.pc = "join_reader"
    /\ ReaderEnded
    /\ main' = IF reader.pc = "err" THEN Return("Err", "reader")
               ELSE [main EXCEPT !.pc = "join_workers", !.idx = 1]
    /\ UNCHANGED <<config, r1_pos, r2_pos, reader, batch_ch, output_ch, writer_ch,
                   worker, dist, writer, out, total_read, processed_count,
                   filtered_count, fail_order, transformed, produced>>

\* for handle in processing_handles { handle.join().unwrap(); }
MainJoinWorker ==
    /\ main.pc = "join_workers"
    /\ main.idx <= threads
    /\ WorkerEnded(main.idx)
    /\ main' = [main EXCEPT !.idx = @ + 1]
    /\ UNCHANGED <<config, r1_pos, r2_pos, reader, batch_ch, output_ch, writer_ch,
                   worker, dist, writer, out, total_read, processed_count,
                   filtered_count, fail_order, transformed, produced>>

\* drop(output_tx)
MainDropOutputTx ==
    /\ main.pc = "join_workers"
    /\ main.idx > threads
    /\ main' = [main EXCEPT !.pc = "join_dist", !.idx = 1]
    /\ UNCHANGED <<config, r1_pos, r2_pos, reader, batch_ch, output_ch, writer_ch,
                   worker, dist, writer, out, total_read, processed_count,
                   filtered_count, fail_order, transformed, produced>>

\* dist_handle.join().unwrap()?; drop(r1_tx); drop(r2_tx); drop(r3_tx)
MainJoinDist ==
    /\ main.pc = "join_dist"
    /\ DistEnded
    /\ main' = IF dist.pc = "err" THEN Return("Err", "dist")
               ELSE [main EXCEPT !.pc = "join_writers", !.idx = 1]
    /\ UNCHANGED <<config, r1_pos, r2_pos, reader, batch_ch, output_ch, writer_ch,
                   worker, dist, writer, out, total_read, processed_count,
                   filtered_count, fail_order, transformed, produced>>

\* rK_writer_handle.join().unwrap()? for K = 1, 2, 3, then Ok(())
MainJoinWriter ==
    /\ main.pc = "join_writers"
    /\ WriterEnded(main.idx)
    /\ main' = IF writer[main.idx] = "err" THEN Return("Err", WriterName(main.idx))
               ELSE IF main.idx < NumWriters THEN [main EXCEPT !.idx = @ + 1]
               ELSE Return("Ok", "none")
    /\ UNCHANGED <<config, r1_pos, r2_pos, reader, batch_ch, output_ch, writer_ch,
                   worker, dist, writer, out, total_read, processed_count,
                   filtered_count, fail_order, transformed, produced>>

Next ==
    \/ ReaderRead
    \/ ReaderSend
    \/ \E w \in Workers : WorkerRecv(w)
    \/ \E w \in Workers : WorkerSend(w)
    \/ DistRecv
    \/ DistSend
    \/ \E k \in Writers : WriterCreateFail(k)
    \/ \E k \in Writers : WriterRecv(k)
    \/ MainJoinReader
    \/ MainJoinWorker
    \/ MainDropOutputTx
    \/ MainJoinDist
    \/ MainJoinWriter

Spec == Init /\ [][Next]_vars

(***************************************************************************)
(* Long runs: inputs of many more batches than the channels hold, through  *)
(* channels that hold more than one batch.                                 *)
(***************************************************************************)
LongInit ==
    /\ call = NoCall
    /\ \/ \* one worker, streams much longer than the channels hold
          /\ \E pattern \in {"pass", "mixed"} :
                Launch(Run(LongLen, LongLen, pattern, FALSE, FALSE, 0))
          /\ threads = 1
          /\ capacity \in 1..LongCap
       \/ \* several workers
          /\ \E pattern \in {"pass", "mixed"} :
                Launch(Run(MaxLen, MaxLen, pattern, FALSE, FALSE, 0))
          /\ threads \in 2..MaxWorkers
          /\ capacity = LongCap
       \/ \* a destination that fails
          /\ Launch(Run(1, 1, "pass", FALSE, FALSE, 1))
          /\ threads = 1
          /\ capacity = LongCap
    /\ batch_size \in 1..MaxBatch
    /\ Spawned

LongSpec == LongInit /\ [][Next]_vars

(***************************************************************************)
(* Which threads can take a step: a thread is blocked only in a send, a    *)
(* recv or a join.                                                         *)
(***************************************************************************)
ReaderCanStep ==
    \/ reader.pc = "read"
    \/ reader.pc = "send" /\ CanSend(batch_ch, BatchReceiversAlive)
WorkerCanStep(w) ==
    \/ worker[w].pc = "recv" /\ CanRecv(batch_ch, BatchSendersAlive)
    \/ worker[w].pc = "send" /\ CanSend(output_ch, OutputReceiverAlive)
DistCanStep ==
    \/ dist.pc = "recv" /\ CanRecv(output_ch, OutputSendersAlive)
    \/ dist.pc = "send" /\ CanSend(writer_ch[dist.k], WriterReceiverAlive(dist.k))
WriterCanStep(k) ==
    \/ writer[k] = "create" /\ fail_writer = k
    \/ writer[k] \in {"create", "recv"} /\ CanRecv(writer_ch[k], WriterSendersAlive)
MainCanStep ==
    \/ main.pc = "join_reader" /\ ReaderEnded
    \/ main.pc = "join_workers" /\ (main.idx > threads \/ WorkerEnded(main.idx))
    \/ main.pc = "join_dist" /\ DistEnded
    \/ main.pc = "join_writers" /\ WriterEnded(main.idx)
SomeThreadCanStep ==
    /\ Running
    /\ \/ ReaderCanStep
       \/ \E w \in Workers : WorkerCanStep(w)
       \/ DistCanStep
       \/ \E k \in Writers : WriterCanStep(k)
       \/ MainCanStep

\* every thread is scheduled as long as it can take a step
FairSpec ==
    /\ Spec
    /\ WF_vars(ReaderRead \/ ReaderSend)
    /\ \A w \in 1..MaxWorkers : WF_vars(w \in Workers /\ (WorkerRecv(w) \/ WorkerSend(w)))
    /\ WF_vars(DistRecv \/ DistSend)
    /\ \A k \in Writers : WF_vars(WriterRecv(k))
    /\ WF_vars(MainJoinReader \/ MainJoinWorker \/ MainDropOutputTx
                 \/ MainJoinDist \/ MainJoinWriter)

(***************************************************************************)
(* The functions, each called on its own on every argument of a bounded    *)
(* set.                                                                    *)
(***************************************************************************)
SeqsUpTo(S, n) == UNION {[1..k -> S] : k \in 0..n}

\* bases in both cases, the unknown base, and characters that are no base
Alphabet == {"A", "C", "G", "T", "N", "a", "c", "g", "t", "n", "X", "x", "-"}
Texts == SeqsUpTo(Alphabet, MaxText)

HeaderChars == {"@", "r", "/", "1", "2"}
Headers == SeqsUpTo(HeaderChars, MaxHeader)

\* t repeated up to n characters
Cycle(t, n) == [j \in 1..n |-> t[((j - 1) % Len(t)) + 1]]
\* R2 records: the insert, then a barcode made of a short text repeated; one
\* character short of, at, and one character over the required length
PairR2Sequences ==
    {[j \in 1..InsertLen |-> Bases[(j % 4) + 1]] \o Cycle(t, n) :
        t \in {x \in Texts : Len(x) \in 1..2},
        n \in {R2Len - InsertLen - 1, R2Len - InsertLen, R2Len - InsertLen + 1}}
PairR1s ==
    {FastqRecord(h, <<"A", "c", "G", "T">>, <<"+">>, <<"I", "J", "K", "L">>) :
        h \in {<<"@", "r", "1", "/", "1">>, <<"@", "r", "1">>, <<"@", "q", "1", "/", "1">>}}
PairR2s ==
    {FastqRecord(h, sq, <<"+">>, [j \in 1..Len(sq) |-> Digit((j % 9) + 1)]) :
        h \in {<<"@", "r", "1", "/", "2">>, <<"@", "r", "1", "/", "1">>,
                <<"@", "r", "1">>, <<"@", "r", "2", "/", "2">>},
        sq \in PairR2Sequences}
Pairs == PairR1s \X PairR2s

\* files: every sequence of up to MaxFileLines of these lines
FileLineChoices ==
    {<<"@", "r">>, <<"A", "C">>, <<"G">>, <<"+">>, <<"I", "I">>, <<"I">>, <<>>}
Files == SeqsUpTo(FileLineChoices, MaxFileLines)

ToCall(kind, arg) == [kind |-> kind, arg |-> arg, fn |-> "none", n |-> 0, ret |-> <<>>]
Calls ==
    {ToCall("text", t) : t \in Texts}
      \cup {ToCall("header", h) : h \in Headers}
      \cup {ToCall("pair", p) : p \in Pairs}
      \cup {ToCall("file", f) : f \in Files}

\* what the n-th application is applied to: the argument, then the result
Operand == IF call.n = 0 THEN call.arg ELSE call.ret
Returned_by(fn, ret) == [call EXCEPT !.fn = fn, !.n = @ + 1, !.ret = ret]

\* reverse_complement of main.rs
Call_reverse_complement ==
    /\ call.kind = "text"
    /\ call.n = 0
    /\ call' = Returned_by("reverse_complement", reverse_complement(call.arg))
    /\ UNCHANGED pipeline

\* reverse_complement of lib.rs, once or on its own result
Call_lib_reverse_complement ==
    /\ call.kind = "text"
    /\ call.fn \in {"none", "lib::reverse_complement"}
    /\ call.n < 2
    /\ call' = Returned_by("lib::reverse_complement", lib_reverse_complement(Operand))
    /\ UNCHANGED pipeline

\* extract_base_header of main.rs, once or on its own result
Call_extract_base_header ==
    /\ call.kind = "header"
    /\ call.fn \in {"none", "extract_base_header"}
    /\ call.n < 2
    /\ call' = Returned_by("extract_base_header", extract_base_header(Operand))
    /\ UNCHANGED pipeline

\* extract_base_header of lib.rs, once or on its own result
Call_lib_extract_base_header ==
    /\ call.kind = "header"
    /\ call.fn \in {"none", "lib::extract_base_header"}
    /\ call.n < 2
    /\ call' = Returned_by("lib::extract_base_header", lib_extract_base_header(Operand))
    /\ UNCHANGED pipeline

Call_process_record_pair ==
    /\ call.kind = "pair"
    /\ call.n = 0
    /\ call' = Returned_by("process_record_pair",
                           process_record_pair(call.arg[1], call.arg[2]))
    /\ UNCHANGED pipeline

\* read_fastq_record on a file of which no line was read yet
Call_read_fastq_record ==
    /\ call.kind = "file"
    /\ call.n = 0
    /\ call' = Returned_by("read_fastq_record", read_fastq_record(call.arg, 0))
    /\ UNCHANGED pipeline

CallInit ==
    /\ call \in Calls
    /\ Launch(Run(0, 0, "pass", FALSE, FALSE, 0))
    /\ batch_size = 1
    /\ threads = 1
    /\ capacity = QueueCap
    /\ Spawned

CallNext ==
    \/ Call_reverse_complement
    \/ Call_lib_reverse_complement
    \/ Call_extract_base_header
    \/ Call_lib_extract_base_header
    \/ Call_process_record_pair
    \/ Call_read_fastq_record

CallSpec == CallInit /\ [][CallNext]_vars

(***************************************************************************)
(* What a run is expected to do, stated on the input alone.                *)
(***************************************************************************)
\* the records of the two streams, by position
StreamA(i) == RecordA(i)
StreamB(i) == RecordB(i, KindAt(input.pattern, i))
\* min(len(stream_a), len(stream_b)), in records
MinLen == Min(input.na, input.nb)

FaultFree == ~input.truncA /\ ~input.truncB /\ fail_writer = 0
Returned == main.pc = "returned"
ReturnedOk == Returned /\ main.result = "Ok"
ReturnedErr == Returned /\ main.result = "Err"

\* the pairs of the two streams, by position, and their triples
ExpectedPairs == [i \in 1..MinLen |-> <<StreamA(i), StreamB(i)>>]
ExpectedTriples == ProcessPairs(ExpectedPairs)
ExpectedPairHeaders == {<<StreamA(i).header, StreamB(i).header>> : i \in 1..MinLen}
\* batches the reader sends, and the R2 records they hold
ExpectedBatches == (MinLen + batch_size - 1) \div batch_size
ExpectedR2Sent == Min(input.nb, ExpectedBatches * batch_size)

\* the records of an output file, and how many it holds
WrittenCount(k) == Len(out[k]) \div 4
OutRecords(k) ==
    [i \in 1..WrittenCount(k) |->
        FastqRecord(out[k][4 * i - 3], out[k][4 * i - 2], out[k][4 * i - 1], out[k][4 * i])]
OutHeaders(k) == [i \in 1..WrittenCount(k) |-> out[k][4 * i - 3]]
\* the i-th records of the three files, as a triple
OutTriple(i) == ProcessedRecord(OutRecords(1)[i], OutRecords(2)[i], OutRecords(3)[i])
AlignedCount == Min(WrittenCount(1), Min(WrittenCount(2), WrittenCount(3)))
OutTriples == [i \in 1..AlignedCount |-> OutTriple(i)]

AllThreadsEnded ==
    /\ ReaderEnded
    /\ \A w \in Workers : WorkerEnded(w)
    /\ DistEnded
    /\ \A k \in Writers : WriterEnded(k)

AllQueuesEmpty ==
    /\ batch_ch = <<>>
    /\ output_ch = <<>>
    /\ \A k \in Writers : writer_ch[k] = <<>>

(***************************************************************************)
(* C1: at successful completion processed + filtered == read, also when    *)
(* the two streams have different record counts.                           *)
(***************************************************************************)
C1_CountersBalance ==
    ReturnedOk => processed_count + filtered_count = total_read

(***************************************************************************)
(* C10: when the reader ends without error, the read counter equals        *)
(* min(len(stream_a), len(stream_b)) in records.                           *)
(***************************************************************************)
C10_ReadCountIsMinLen ==
    reader.pc = "ok" => total_read = MinLen

\* the reader ended cleanly on streams of unequal length whose shorter
\* length is not a multiple of the batch size
C10_Witness ==
    /\ reader.pc = "ok"
    /\ input.na # input.nb
    /\ MinLen % batch_size # 0
    /\ total_read = MinLen

(***************************************************************************)
(* C2: on well-formed input with no I/O failure the pipeline drains: every *)
(* thread ends, all five queues are empty and main returns success.        *)
(***************************************************************************)
Drained == ReturnedOk /\ AllThreadsEnded /\ AllQueuesEmpty

\* work left: what is unread, every batch by how far it is from the output
\* files, and every thread by how far it is from its end
Weigh(ch, weight) == Len(ch) * weight
\* no file is longer than its records' four lines each and a cut-off tail
Unread(n, pos) == 4 * n + 4 - pos
Measure ==
    2 * (Unread(input.na, r1_pos) + Unread(input.nb, r2_pos))
    + (IF reader.pc = "read" THEN 1 ELSE IF reader.pc = "send" THEN 11 ELSE 0)
    + Weigh(batch_ch, 9)
    + Cardinality({w \in Workers : worker[w].pc = "recv"})
    + 9 * Cardinality({w \in Workers : worker[w].pc = "send"})
    + Weigh(output_ch, 7)
    + (IF dist.pc = "recv" THEN 1
       ELSE IF dist.pc = "send" THEN 1 + 2 * (NumWriters + 1 - dist.k) ELSE 0)
    + Weigh(writer_ch[1], 1) + Weigh(writer_ch[2], 1) + Weigh(writer_ch[3], 1)
    + Cardinality({k \in Writers : ~WriterEnded(k)})
    + (CASE main.pc = "join_reader" -> threads + 6
         [] main.pc = "join_workers" -> threads + 6 - main.idx
         [] main.pc = "join_dist" -> 4
         [] main.pc = "join_writers" -> 4 - main.idx
         [] OTHER -> 0)

\* every step uses up work, so no run goes on for ever; and short of the
\* drained state some thread can take a step, so under FairSpec's
\* scheduling a fault-free run ends drained
C2_PipelineDrains ==
    /\ [](Measure \in Nat)
    /\ [][Measure' < Measure]_vars
    /\ [](FaultFree => (Drained \/ SomeThreadCanStep))

\* drained after more batches than a queue holds went through two workers
C2_Witness ==
    /\ FaultFree
    /\ Drained
    /\ batch_size = 1
    /\ MinLen = MaxLen
    /\ MinLen > QueueCap
    /\ threads > 1
    /\ processed_count = MaxLen

(***************************************************************************)
(* C3: every triple a worker produced is written exactly once to each of   *)
(* the three outputs: never a record twice or a record no worker produced, *)
(* and at successful completion each output holds exactly the triples      *)
(* produced, processed_count of them.                                      *)
(***************************************************************************)
C3_WrittenExactlyOnce ==
    /\ \A k \in Writers : SeqToBag(OutHeaders(k)) \sqsubseteq produced
    /\ ReturnedOk =>
          \A k \in Writers : /\ SeqToBag(OutHeaders(k)) = produced
                             /\ WrittenCount(k) = processed_count

\* a successful run that wrote several batches, some pairs being filtered
C3_Witness ==
    /\ ReturnedOk
    /\ processed_count >= 2
    /\ filtered_count >= 1
    /\ \A k \in Writers : WrittenCount(k) = processed_count

(***************************************************************************)
(* C4: the three outputs stay record-aligned: the i-th records of the      *)
(* three files are the three parts of the triple of one input pair.        *)
(***************************************************************************)
C4_OutputsAligned ==
    \A i \in 1..AlignedCount :
        \E j \in 1..MinLen :
            process_record_pair(StreamA(j), StreamB(j)) = <<OutTriple(i)>>

\* two workers delivered out of read order and all three files hold both
\* triples
C4_Witness ==
    /\ threads > 1
    /\ AlignedCount >= 2
    /\ OutRecords(1)[1].header # extract_base_header(StreamA(1).header)

(***************************************************************************)
(* C5: after a consumer ended with a fatal error the pipeline does not     *)
(* hang: no producer stays blocked for ever on a full queue.               *)
(***************************************************************************)
\* the reader waits on the full batch channel, no worker is left to take a
\* batch from it, and main, which holds batch_rx, waits for the reader
ReaderHung ==
    /\ reader.pc = "send"
    /\ Len(batch_ch) >= capacity
    /\ \A w \in Workers : WorkerEnded(w)
    /\ main.pc = "join_reader"

C5_NoHangAfterError == fail_order # <<>> => ~ReaderHung

(***************************************************************************)
(* C6: when main returns a fatal error, every spawned thread has ended.    *)
(***************************************************************************)
C6_AllJoinedOnError == ReturnedErr => AllThreadsEnded

(***************************************************************************)
(* C7: the error main returns is that of the thread that failed first.     *)
(***************************************************************************)
C7_FirstErrorSurfaced == ReturnedErr => main.err = Head(fail_order)

(***************************************************************************)
(* C8: the multiset of output triples and the final processed and          *)
(* filtered counts are the same for every worker count and schedule: they  *)
(* are determined by the input files and the batch size.                   *)
(***************************************************************************)
C8_SameResultForAnyWorkers ==
    ReturnedOk =>
        /\ \A k \in Writers : WrittenCount(k) = AlignedCount
        /\ SeqToBag(OutTriples) = SeqToBag(ExpectedTriples)
        /\ processed_count = Len(ExpectedTriples)
        /\ filtered_count = ExpectedR2Sent - Len(ExpectedTriples)

\* a successful run of two workers whose output order is not the read order
C8_Witness ==
    /\ ReturnedOk
    /\ threads > 1
    /\ Len(ExpectedTriples) >= 2
    /\ OutTriples # ExpectedTriples

(***************************************************************************)
(* C9: the pairs handed to the transform are the pairs (A[i], B[i]),       *)
(* i < min(len(A), len(B)): none other, none twice, and all of them once   *)
(* the run has succeeded.                                                  *)
(***************************************************************************)
C9_PairingIsPositional ==
    /\ BagToSet(transformed) \subseteq ExpectedPairHeaders
    /\ \A p \in BagToSet(transformed) : CopiesIn(p, transformed) = 1
    /\ ReturnedOk => BagToSet(transformed) = ExpectedPairHeaders

\* a successful run whose last batch held more records of one stream than
\* of the other
C9_Witness ==
    /\ ReturnedOk
    /\ input.na # input.nb
    /\ batch_size > 1
    /\ MinLen % batch_size # 0
    /\ MinLen > batch_size
    /\ BagToSet(transformed) = ExpectedPairHeaders

(***************************************************************************)
(* C11: each of the five queues holds at most its capacity, and the        *)
(* batches in flight (queued, or held by a stage for its next send) are    *)
(* bounded by the capacities and the worker count, whatever the length of  *)
(* the input and also when a writer takes nothing.                         *)
(***************************************************************************)
\* batches queued or held by a stage for a send
InFlight ==
    Len(batch_ch) + Len(output_ch)
    + Len(writer_ch[1]) + Len(writer_ch[2]) + Len(writer_ch[3])
    + (IF reader.pc = "send" THEN 1 ELSE 0)
    + Cardinality({w \in Workers : worker[w].pc = "send"})
    + (IF dist.pc = "send" THEN NumWriters + 1 - dist.k ELSE 0)
\* five full queues, one batch per producer and three in the distributor
InFlightBound == (2 + NumWriters) * capacity + 1 + threads + NumWriters

C11_QueuesBounded ==
    /\ Len(batch_ch) <= capacity
    /\ Len(output_ch) <= capacity
    /\ \A k \in Writers : Len(writer_ch[k]) <= capacity
    /\ InFlight <= InFlightBound

\* every queue is full and every producer waits, while no writer has taken
\* a batch and input is still unread
C11_Witness ==
    /\ InFlight = InFlightBound
    /\ \A k \in Writers : out[k] = <<>> /\ Len(writer_ch[k]) = capacity
    /\ r1_pos < 4 * input.na
    /\ r2_pos < 4 * input.nb

(***************************************************************************)
(* C12: with one worker the records of each output are in the read order   *)
(* of the input pairs: if pairs i < j both pass the filter, the triple of  *)
(* pair i is written before that of pair j in all three outputs.           *)
(***************************************************************************)
RECURSIVE LinesOf(_, _)
IsPrefix(s, t) == Len(s) <= Len(t) /\ \A i \in 1..Len(s) : s[i] = t[i]

\* the part of a triple that goes to output k
PartOf(triple, k) ==
    CASE k = 1 -> triple.r1_out
      [] k = 2 -> triple.r2_out
      [] OTHER -> triple.r3_out

\* the lines output k holds when the given triples are written in order
LinesOf(triples, k) ==
    IF triples = <<>> THEN <<>>
    ELSE write_to_bytes(PartOf(Head(triples), k)) \o LinesOf(Tail(triples), k)

C12_SingleWorkerKeepsReadOrder ==
    threads = 1 =>
        \E expected \in {ExpectedTriples} :
            \A k \in Writers : IsPrefix(out[k], LinesOf(expected, k))

\* one worker; two batches wait in the batch queue while every output
\* already holds the triples of two passing pairs, a filtered pair between
\* them
C12_Witness ==
    /\ threads = 1
    /\ input.pattern = "mixed"
    /\ Len(batch_ch) >= 2
    /\ \A k \in Writers : WrittenCount(k) >= 2

(***************************************************************************)
(* C13: for every worker count the surviving records of one input batch    *)
(* are written to each output as one block in their input order: blocks of *)
(* two batches never interleave and two records of a batch never swap.     *)
(***************************************************************************)
\* position in the input of the pair a written header comes from
PairIndex(header) == CHOOSE i \in 1..9 : Digit(i) = header[Len(header)]
\* the batch the reader puts pair i in
BatchOf(i) == (i - 1) \div batch_size
\* positions of the pairs that pass the filter
Survivors == {i \in 1..MinLen : process_record_pair(StreamA(i), StreamB(i)) # <<>>}
\* positions in the input of the records of output k, as written
WrittenIndexes(k) == [p \in 1..WrittenCount(k) |-> PairIndex(out[k][4 * p - 3])]

BlockWise(idx, survivors) ==
    /\ \A p \in 1..Len(idx) : \A q \in p..Len(idx) :
          BatchOf(idx[p]) = BatchOf(idx[q]) =>
              /\ p < q => idx[p] < idx[q]
              /\ \A m \in p..q : BatchOf(idx[m]) = BatchOf(idx[p])
    /\ \A p \in 1..Len(idx) :
          {i \in survivors : BatchOf(i) = BatchOf(idx[p])}
             = {idx[q] : q \in {r \in 1..Len(idx) : BatchOf(idx[r]) = BatchOf(idx[p])}}

C13_BatchesWrittenAsBlocks ==
    \E survivors \in {Survivors} :
        \A k \in Writers :
            \E idx \in {WrittenIndexes(k)} : BlockWise(idx, survivors)

\* several workers, batches of two: every output holds the block of the
\* second batch before the block of the first
C13_Witness ==
    /\ threads > 1
    /\ batch_size = 2
    /\ \A k \in Writers : WrittenIndexes(k) = <<3, 4, 1, 2>>

(***************************************************************************)
(* C15: a pair that fails the length or the identity check adds one to the *)
(* filtered counter and nothing to the processed counter, and nothing else *)
(* adds to the filtered counter: the two counters together count the pairs *)
(* handed to the transform.                                                *)
(***************************************************************************)
C15_FilteredCountsRejectedPairs ==
    processed_count + filtered_count = BagCardinality(transformed)

(***************************************************************************)
(* C14: for a pair whose R2 sequence is 166 long and whose base identities *)
(* match, process_record_pair yields exactly one triple: all three headers *)
(* are the base identity of R1, out_a keeps the sequence and quality of    *)
(* R1, out_c is the first 150 characters of the R2 sequence and quality,   *)
(* out_b the reverse complement of the last 16 bases and the last 16       *)
(* quality characters reversed.                                            *)
(***************************************************************************)
\* s from its last character to its first
Backwards(s) == [i \in 1..Len(s) |-> s[Len(s) + 1 - i]]

TripleAsSpecified(r1, r2, triple) ==
    LET base == lib_extract_base_header(r1.header) IN
    /\ triple.r1_out.header = base
    /\ triple.r2_out.header = base
    /\ triple.r3_out.header = base
    /\ triple.r1_out.sequence = r1.sequence
    /\ triple.r1_out.quality = r1.quality
    /\ triple.r3_out.sequence = SubSeq(r2.sequence, 1, InsertLen)
    /\ triple.r3_out.quality = SubSeq(r2.quality, 1, InsertLen)
    /\ triple.r2_out.sequence =
          lib_reverse_complement(SubSeq(r2.sequence, InsertLen + 1, R2Len))
    /\ triple.r2_out.quality = Backwards(SubSeq(r2.quality, InsertLen + 1, R2Len))

C14_TransformAsSpecified ==
    (/\ call.fn = "process_record_pair"
     /\ Len(call.arg[2].sequence) = R2Len
     /\ lib_extract_base_header(call.arg[1].header)
           = lib_extract_base_header(call.arg[2].header))
    => /\ Len(call.ret) = 1
       /\ TripleAsSpecified(call.arg[1], call.arg[2], call.ret[1])

\* the same on pairs whose last 16 bases are A, C, G, T or N in either case
C14_OnKnownBases ==
    (/\ call.fn = "process_record_pair"
     /\ Len(call.arg[2].sequence) = R2Len
     /\ \A j \in (InsertLen + 1)..R2Len :
           to_ascii_uppercase(call.arg[2].sequence[j]) \in {"A", "C", "G", "T", "N"}
     /\ lib_extract_base_header(call.arg[1].header)
           = lib_extract_base_header(call.arg[2].header))
    => /\ Len(call.ret) = 1
       /\ TripleAsSpecified(call.arg[1], call.arg[2], call.ret[1])

(***************************************************************************)
(* C16: the reverse complement the transform applies maps every character  *)
(* other than A/T/G/C in either case to N and emits upper case only: it    *)
(* returns what reverse_complement of lib.rs returns.                      *)
(***************************************************************************)
C16_MainRevcompIsLibRevcomp ==
    call.fn = "reverse_complement" =>
        /\ call.ret = lib_reverse_complement(call.arg)
        /\ \A i \in 1..Len(call.ret) : call.ret[i] \in {"A", "C", "G", "T", "N"}

(***************************************************************************)
(* C17: reverse_complement of lib.rs returns a string of the length of its *)
(* argument whose i-th byte is the complement of the i-th byte from the    *)
(* end, A<->T and G<->C in either case and N for every other byte, so that *)
(* it holds only A, T, G, C and N; the empty string gives the empty string.*)
(***************************************************************************)
ComplementOf(b) ==
    IF b \in {"A", "a"} THEN "T"
    ELSE IF b \in {"T", "t"} THEN "A"
    ELSE IF b \in {"G", "g"} THEN "C"
    ELSE IF b \in {"C", "c"} THEN "G"
    ELSE "N"

C17_LibRevcomp ==
    (call.fn = "lib::reverse_complement" /\ call.n = 1) =>
        /\ Len(call.ret) = Len(call.arg)
        /\ \A i \in 1..Len(call.ret) :
              /\ call.ret[i] = ComplementOf(call.arg[Len(call.arg) + 1 - i])
              /\ call.ret[i] \in {"A", "T", "G", "C", "N"}
        /\ call.arg = <<>> => call.ret = <<>>

\* called on a lower-case base, a character that is no base and an
\* upper-case base
C17_Witness ==
    /\ call.fn = "lib::reverse_complement"
    /\ call.n = 1
    /\ call.arg = <<"a", "X", "G">>
    /\ call.ret = <<"C", "N", "T">>

(***************************************************************************)
(* C18: reverse complement is an involution on strings of A/T/G/C in any   *)
(* case: revcomp(revcomp(s)) = s.                                          *)
(***************************************************************************)
OnlyBases(s) ==
    \A i \in 1..Len(s) : s[i] \in {"A", "T", "G", "C", "a", "t", "g", "c"}
TwiceOnBases ==
    call.fn = "lib::reverse_complement" /\ call.n = 2 /\ OnlyBases(call.arg)

C18_Involution == TwiceOnBases => call.ret = call.arg

\* C18 as amended: revcomp(revcomp(s)) is s in upper case
UpperBase(b) ==
    CASE b = "a" -> "A"
      [] b = "t" -> "T"
      [] b = "g" -> "G"
      [] b = "c" -> "C"
      [] OTHER -> b

C18_InvolutionUpToCase ==
    TwiceOnBases => call.ret = [i \in 1..Len(call.arg) |-> UpperBase(call.arg[i])]

\* applied twice to a string of mixed case that is not its own reverse
C18_Witness ==
    /\ TwiceOnBases
    /\ call.arg = <<"a", "C", "g">>
    /\ call.ret = <<"A", "C", "G">>

(***************************************************************************)
(* C19: extract_base_header is idempotent, also on headers that end in     *)
(* more than one /1 or /2 marker, and maps "id/1" and "id/2" to "id".      *)
(***************************************************************************)
C19_ExtractIdempotent ==
    /\ (call.fn = "extract_base_header" /\ call.n = 2) =>
            call.ret = extract_base_header(call.arg)
    /\ (call.fn = "lib::extract_base_header" /\ call.n = 2) =>
            call.ret = lib_extract_base_header(call.arg)
    /\ (call.fn \in {"extract_base_header", "lib::extract_base_header"}
         /\ call.n = 1
         /\ call.arg \in {<<"r", "/", "1">>, <<"r", "/", "2">>}) =>
            call.ret = <<"r">>

(***************************************************************************)
(* C20: once the reader has reached a record that its stream ends in (after *)
(* the header line, before the separator line, or before the quality is as *)
(* long as the sequence), the reader thread has ended with an error, main  *)
(* waits for the reader or has returned the reader's error and never       *)
(* returns success, and no batch holds the record that was cut off.        *)
(***************************************************************************)
TruncatedReached ==
    \/ input.truncA /\ r1_pos > 4 * input.na
    \/ input.truncB /\ r2_pos > 4 * input.nb

\* the header lines of the records the files end in
TruncatedHeaders ==
    (IF input.truncA THEN {RecordA(input.na + 1).header} ELSE {})
      \cup (IF input.truncB THEN {RecordB(input.nb + 1, "ok").header} ELSE {})

BatchHeaders(batch) == {batch[i].header : i \in 1..Len(batch)}

C20_TruncatedRecordIsFatal ==
    /\ TruncatedReached =>
          /\ reader.pc = "err"
          /\ ~ReturnedOk
          /\ \/ main.pc = "join_reader"
             \/ ReturnedErr /\ main.err = "reader"
    /\ \E cutoff \in {TruncatedHeaders} :
          /\ BatchHeaders(reader.r1_batch) \cap cutoff = {}
          /\ BatchHeaders(reader.r2_batch) \cap cutoff = {}
          /\ \A i \in 1..Len(batch_ch) :
                /\ BatchHeaders(batch_ch[i][1]) \cap cutoff = {}
                /\ BatchHeaders(batch_ch[i][2]) \cap cutoff = {}

\* main has returned the reader's error after the second stream ended in the
\* quality line of a record, with batches read before it
C20_Witness ==
    /\ input.truncB
    /\ input.cut = "quality"
    /\ r2_pos > 4 * input.nb
    /\ total_read >= 2
    /\ ReturnedErr
    /\ main.err = "reader"

(***************************************************************************)
(* C21: every record has a quality as long as its sequence: the record     *)
(* read_fastq_record returns (sequence or quality on several lines, a last *)
(* quality line longer than needed), and the three records                 *)
(* process_record_pair makes of two such records.                          *)
(***************************************************************************)
WellFormed(rec) == Len(rec.sequence) = Len(rec.quality)

C21_QualityAsLongAsSequence ==
    /\ (call.fn = "read_fastq_record" /\ call.ret.tag = "Some") =>
          WellFormed(call.ret.rec[1])
    /\ (/\ call.fn = "process_record_pair"
        /\ WellFormed(call.arg[1])
        /\ WellFormed(call.arg[2])) =>
          \A i \in 1..Len(call.ret) :
              /\ WellFormed(call.ret[i].r1_out)
              /\ WellFormed(call.ret[i].r2_out)
              /\ WellFormed(call.ret[i].r3_out)

\* a record read with its quality on two lines, the second longer than needed
C21_Witness ==
    /\ call.fn = "read_fastq_record"
    /\ call.arg = <<(<<"@", "r">>), (<<"A", "C">>), (<<"+">>), (<<"I">>), (<<"I", "I">>)>>
    /\ call.ret.tag = "Some"
    /\ call.ret.rec[1].sequence = <<"A", "C">>
    /\ call.ret.rec[1].quality = <<"I", "I">>

\* a pair was transformed into three records
C21_TransformWitness ==
    /\ call.fn = "process_record_pair"
    /\ Len(call.ret) = 1
    /\ Len(call.ret[1].r2_out.quality) = R2Len - InsertLen
    /\ Len(call.ret[1].r3_out.quality) = InsertLen

====
